---- MODULE Spec2Model ----
(***************************************************************************)
(* Model of the ICE vocabulary types of the peer::ice module:              *)
(*   - ICECandidateType (peer/ice/ice_candidate/ice_candidate_type.rs):    *)
(*     the enum, its Default, From<&str>, From<CandidateType>, Display and *)
(*     the derived serde Serialize / Deserialize;                          *)
(*   - ICEParameters (peer/ice/mod.rs): the record, its derived Default    *)
(*     and derived PartialEq.                                              *)
(*                                                                         *)
(* A Rust string is a sequence of one-character strings, so that exact     *)
(* matching, case and surrounding whitespace are all visible to the model. *)
(* Enum variants are TLA+ strings holding the variant's identifier.        *)
(***************************************************************************)
EXTENDS Naturals, Sequences, FiniteSets

VARIABLES ctype, src, text, back, wire, p, psrc, q, cmp

vars == <<ctype, src, text, back, wire, p, psrc, q, cmp>>

(***************************************************************************)
(* Bounds of the model.                                                    *)
(***************************************************************************)
\* how many characters of a base string an input may have in the other case
MaxCase == 1
\* how many spaces an input may carry around a base string
MaxPad == 1
\* how many transport-level candidate kinds exist beside the four mapped ones
MaxOtherKinds == 2
\* longest username fragment / password
MaxParamLen == 2

(***************************************************************************)
(* Text helpers used to enumerate input strings.                           *)
(***************************************************************************)
LowerChars == <<"a","c","d","e","f","h","i","l","n","o","p","r","s","t","u","x","y">>

UpperChars == <<"A","C","D","E","F","H","I","L","N","O","P","R","S","T","U","X","Y">>

Chars == {LowerChars[i] : i \in DOMAIN LowerChars}
           \cup {UpperChars[i] : i \in DOMAIN UpperChars} \cup {" "}

ToUpperChar(c) ==
    IF \E i \in DOMAIN LowerChars : LowerChars[i] = c
    THEN UpperChars[CHOOSE i \in DOMAIN LowerChars : LowerChars[i] = c]
    ELSE c

ToLowerChar(c) ==
    IF \E i \in DOMAIN UpperChars : UpperChars[i] = c
    THEN LowerChars[CHOOSE i \in DOMAIN UpperChars : UpperChars[i] = c]
    ELSE c

ToLowercase(s) == [i \in 1..Len(s) |-> ToLowerChar(s[i])]

ToUppercase(s) == [i \in 1..Len(s) |-> ToUpperChar(s[i])]

RECURSIVE Trim(_)
Trim(s) ==
    IF s = <<>> THEN s
    ELSE IF Head(s) = " " THEN Trim(Tail(s))
    ELSE IF s[Len(s)] = " " THEN Trim(SubSeq(s, 1, Len(s) - 1))
    ELSE s

(***************************************************************************)
(* ICECandidateType                                                        *)
(***************************************************************************)
ICECandidateType == {"Unspecified", "Host", "Srflx", "Prflx", "Relay"}

NamedTypes == {"Host", "Srflx", "Prflx", "Relay"}

ICECandidateTypeDefault == "Unspecified"

ICE_CANDIDATE_TYPE_HOST_STR == <<"h","o","s","t">>

ICE_CANDIDATE_TYPE_SRFLX_STR == <<"s","r","f","l","x">>

ICE_CANDIDATE_TYPE_PRFLX_STR == <<"p","r","f","l","x">>

ICE_CANDIDATE_TYPE_RELAY_STR == <<"r","e","l","a","y">>

\* crate::UNSPECIFIED_STR, defined at the crate root
UNSPECIFIED_STR == <<"U","n","s","p","e","c","i","f","i","e","d">>

WireTokens == {ICE_CANDIDATE_TYPE_HOST_STR, ICE_CANDIDATE_TYPE_SRFLX_STR,
               ICE_CANDIDATE_TYPE_PRFLX_STR, ICE_CANDIDATE_TYPE_RELAY_STR}

\* a parser that trims and folds case before matching
FromStrNormalised(raw) ==
    LET r == ToLowercase(Trim(raw)) IN
    IF r = ICE_CANDIDATE_TYPE_HOST_STR THEN "Host"
    ELSE IF r = ICE_CANDIDATE_TYPE_SRFLX_STR THEN "Srflx"
    ELSE IF r = ICE_CANDIDATE_TYPE_PRFLX_STR THEN "Prflx"
    ELSE IF r = ICE_CANDIDATE_TYPE_RELAY_STR THEN "Relay"
    ELSE "Unspecified"

\* a parser with two arms swapped
FromStrSwapped(raw) ==
    IF raw = ICE_CANDIDATE_TYPE_HOST_STR THEN "Host"
    ELSE IF raw = ICE_CANDIDATE_TYPE_SRFLX_STR THEN "Prflx"
    ELSE IF raw = ICE_CANDIDATE_TYPE_PRFLX_STR THEN "Srflx"
    ELSE IF raw = ICE_CANDIDATE_TYPE_RELAY_STR THEN "Relay"
    ELSE "Unspecified"

\* a parser that reports unknown tokens as an error instead of a value
FromStrFallible(raw) ==
    IF raw = ICE_CANDIDATE_TYPE_HOST_STR THEN "Host"
    ELSE IF raw = ICE_CANDIDATE_TYPE_SRFLX_STR THEN "Srflx"
    ELSE IF raw = ICE_CANDIDATE_TYPE_PRFLX_STR THEN "Prflx"
    ELSE IF raw = ICE_CANDIDATE_TYPE_RELAY_STR THEN "Relay"
    ELSE "Err"

\* impl From<&str> for ICECandidateType
FromStr(raw) ==
    IF raw = ICE_CANDIDATE_TYPE_HOST_STR THEN "Host"
    ELSE IF raw = ICE_CANDIDATE_TYPE_SRFLX_STR THEN "Srflx"
    ELSE IF raw = ICE_CANDIDATE_TYPE_PRFLX_STR THEN "Prflx"
    ELSE IF raw = ICE_CANDIDATE_TYPE_RELAY_STR THEN "Relay"
    ELSE "Unspecified"

\* the transport library's candidate kinds: the four mapped ones and the rest
KnownKinds == {"Host", "ServerReflexive", "PeerReflexive", "Relay"}

CandidateType ==
    {[tag |-> t, ext |-> 0] : t \in KnownKinds \cup {"Unspecified"}}
        \cup {[tag |-> "Other", ext |-> i] : i \in 1..MaxOtherKinds}

NoKind == [tag |-> "None", ext |-> 0]

\* a conversion that files peer-reflexive candidates under server-reflexive
FromCandidateTypeMerged(candidate_type) ==
    IF candidate_type.tag = "Host" THEN "Host"
    ELSE IF candidate_type.tag = "ServerReflexive" THEN "Srflx"
    ELSE IF candidate_type.tag = "PeerReflexive" THEN "Srflx"
    ELSE IF candidate_type.tag = "Relay" THEN "Relay"
    ELSE "Unspecified"

\* impl From<CandidateType> for ICECandidateType
FromCandidateType(candidate_type) ==
    IF candidate_type.tag = "Host" THEN "Host"
    ELSE IF candidate_type.tag = "ServerReflexive" THEN "Srflx"
    ELSE IF candidate_type.tag = "PeerReflexive" THEN "Prflx"
    ELSE IF candidate_type.tag = "Relay" THEN "Relay"
    ELSE "Unspecified"

\* a Display whose fallback arm writes nothing
FmtEmptyFallback(self) ==
    IF self = "Host" THEN ICE_CANDIDATE_TYPE_HOST_STR
    ELSE IF self = "Srflx" THEN ICE_CANDIDATE_TYPE_SRFLX_STR
    ELSE IF self = "Prflx" THEN ICE_CANDIDATE_TYPE_PRFLX_STR
    ELSE IF self = "Relay" THEN ICE_CANDIDATE_TYPE_RELAY_STR
    ELSE <<>>

\* a Display with two arms swapped
FmtSwapped(self) ==
    IF self = "Host" THEN ICE_CANDIDATE_TYPE_HOST_STR
    ELSE IF self = "Srflx" THEN ICE_CANDIDATE_TYPE_PRFLX_STR
    ELSE IF self = "Prflx" THEN ICE_CANDIDATE_TYPE_SRFLX_STR
    ELSE IF self = "Relay" THEN ICE_CANDIDATE_TYPE_RELAY_STR
    ELSE UNSPECIFIED_STR

\* a Display whose fallback arm writes a wire token
FmtHostFallback(self) ==
    IF self = "Host" THEN ICE_CANDIDATE_TYPE_HOST_STR
    ELSE IF self = "Srflx" THEN ICE_CANDIDATE_TYPE_SRFLX_STR
    ELSE IF self = "Prflx" THEN ICE_CANDIDATE_TYPE_PRFLX_STR
    ELSE IF self = "Relay" THEN ICE_CANDIDATE_TYPE_RELAY_STR
    ELSE ICE_CANDIDATE_TYPE_HOST_STR

\* impl fmt::Display for ICECandidateType
Fmt(self) ==
    IF self = "Host" THEN ICE_CANDIDATE_TYPE_HOST_STR
    ELSE IF self = "Srflx" THEN ICE_CANDIDATE_TYPE_SRFLX_STR
    ELSE IF self = "Prflx" THEN ICE_CANDIDATE_TYPE_PRFLX_STR
    ELSE IF self = "Relay" THEN ICE_CANDIDATE_TYPE_RELAY_STR
    ELSE UNSPECIFIED_STR

\* a Serialize whose relay variant was left without its rename attribute
SerializeNoRelayRename(self) ==
    IF self = "Host" THEN <<"h","o","s","t">>
    ELSE IF self = "Srflx" THEN <<"s","r","f","l","x">>
    ELSE IF self = "Prflx" THEN <<"p","r","f","l","x">>
    ELSE IF self = "Relay" THEN <<"R","e","l","a","y">>
    ELSE <<"U","n","s","p","e","c","i","f","i","e","d">>

\* #[derive(Serialize)]: a unit variant is written as its serde name, which is
\* the rename attribute when there is one and the variant's identifier otherwise
Serialize(self) ==
    IF self = "Host" THEN <<"h","o","s","t">>
    ELSE IF self = "Srflx" THEN <<"s","r","f","l","x">>
    ELSE IF self = "Prflx" THEN <<"p","r","f","l","x">>
    ELSE IF self = "Relay" THEN <<"r","e","l","a","y">>
    ELSE <<"U","n","s","p","e","c","i","f","i","e","d">>

\* #[derive(Deserialize)]: the serde name selects the variant, any other tag
\* is an unknown-variant error
Deserialize(tag) ==
    IF tag = <<"U","n","s","p","e","c","i","f","i","e","d">>
    THEN [ok |-> TRUE, v |-> "Unspecified"]
    ELSE IF tag = <<"h","o","s","t">> THEN [ok |-> TRUE, v |-> "Host"]
    ELSE IF tag = <<"s","r","f","l","x">> THEN [ok |-> TRUE, v |-> "Srflx"]
    ELSE IF tag = <<"p","r","f","l","x">> THEN [ok |-> TRUE, v |-> "Prflx"]
    ELSE IF tag = <<"r","e","l","a","y">> THEN [ok |-> TRUE, v |-> "Relay"]
    ELSE [ok |-> FALSE, v |-> "unknown variant"]

(***************************************************************************)
(* Input strings: the strings the tests feed to the parser, and their      *)
(* near misses: other case, surrounding spaces, cut short, letters swapped.*)
(***************************************************************************)
BaseInputs == WireTokens \cup {<<>>, <<"U","n","s","p","e","c","i","f","i","e","d">>}

CaseEdits(s) ==
    {[s EXCEPT ![i] = ToUpperChar(s[i])] : i \in 1..Len(s)}
        \cup {[s EXCEPT ![i] = ToLowerChar(s[i])] : i \in 1..Len(s)}

PadEdits(s) == {<<" ">> \o s, s \o <<" ">>}

CutEdits(s) == IF s = <<>> THEN {} ELSE {Tail(s), SubSeq(s, 1, Len(s) - 1)}

SwapEdits(s) ==
    {[s EXCEPT ![i] = s[i + 1], ![i + 1] = s[i]] : i \in 1..(Len(s) - 1)}

RECURSIVE CaseClosure(_, _)
CaseClosure(S, n) ==
    IF n = 0 THEN S
    ELSE CaseClosure(S \cup UNION {CaseEdits(s) : s \in S}, n - 1)

RECURSIVE PadClosure(_, _)
PadClosure(S, n) ==
    IF n = 0 THEN S
    ELSE PadClosure(S \cup UNION {PadEdits(s) : s \in S}, n - 1)

Inputs ==
    CaseClosure(BaseInputs, MaxCase)
        \cup PadClosure(BaseInputs, MaxPad)
        \cup {ToUppercase(s) : s \in BaseInputs}
        \cup UNION {CutEdits(s) \cup SwapEdits(s) : s \in BaseInputs}

(***************************************************************************)
(* ICEParameters                                                           *)
(***************************************************************************)
RECURSIVE StringsUpTo(_)
StringsUpTo(n) ==
    IF n = 0 THEN {<<>>}
    ELSE LET S == StringsUpTo(n - 1) IN S \cup {Append(s, "a") : s \in S}

ParamStrings == StringsUpTo(MaxParamLen)

ICEParameters ==
    [username_fragment : ParamStrings, password : ParamStrings, ice_lite : BOOLEAN]

\* a Default that leaves the lite flag set
ICEParametersDefaultLite ==
    [username_fragment |-> <<>>, password |-> <<>>, ice_lite |-> TRUE]

\* #[derive(Default)]: String::default() twice and bool::default()
ICEParametersDefault ==
    [username_fragment |-> <<>>, password |-> <<>>, ice_lite |-> FALSE]

\* an equality that forgets the lite flag
ICEParametersEqNoLite(a, b) ==
    /\ a.username_fragment = b.username_fragment
    /\ a.password = b.password

\* #[derive(PartialEq)]: the fields are compared in declaration order
ICEParametersEq(a, b) ==
    /\ a.username_fragment = b.username_fragment
    /\ a.password = b.password
    /\ a.ice_lite = b.ice_lite

(***************************************************************************)
(* State.                                                                  *)
(*   ctype  the ICECandidateType value held                                *)
(*   src    the call that last produced (or failed to produce) ctype       *)
(*   text   <<>> or <<[self, out]>>: the last to_string() and its receiver *)
(*   back   <<>> or <<[raw, v]>>: the last parse of a rendered string      *)
(*   wire   <<>> or <<[self, tag]>>: the last serialization                *)
(*   p, q   two ICEParameters values                                       *)
(*   psrc   the call that last produced p                                  *)
(*   cmp    <<>> or <<[lhs, rhs, eq, qe]>>: the last comparison, with the  *)
(*          results of lhs == rhs and of rhs == lhs                        *)
(***************************************************************************)
Call(fn, raw, kind, ok) == [fn |-> fn, raw |-> raw, kind |-> kind, ok |-> ok]

Init ==
    /\ ctype = ICECandidateTypeDefault
    /\ src = Call("init", <<>>, NoKind, TRUE)
    /\ text = <<>>
    /\ back = <<>>
    /\ wire = <<>>
    /\ p = ICEParametersDefault
    /\ psrc = "init"
    /\ q = ICEParametersDefault
    /\ cmp = <<>>

\* ICECandidateType::default()
Default ==
    /\ ctype' = ICECandidateTypeDefault
    /\ src' = Call("default", <<>>, NoKind, TRUE)
    /\ UNCHANGED <<text, back, wire, p, psrc, q, cmp>>

\* ICECandidateType::from(raw)
FromStrCall ==
    \E raw \in Inputs :
        /\ ctype' = FromStr(raw)
        /\ src' = Call("from_str", raw, NoKind, TRUE)
        /\ UNCHANGED <<text, back, wire, p, psrc, q, cmp>>

\* ICECandidateType::from(candidate_type)
FromCandidateTypeCall ==
    \E candidate_type \in CandidateType :
        /\ ctype' = FromCandidateType(candidate_type)
        /\ src' = Call("from_candidate_type", <<>>, candidate_type, TRUE)
        /\ UNCHANGED <<text, back, wire, p, psrc, q, cmp>>

\* ctype.to_string()
ToString ==
    /\ text' = <<[self |-> ctype, out |-> Fmt(ctype)]>>
    /\ UNCHANGED <<ctype, src, back, wire, p, psrc, q, cmp>>

\* ICECandidateType::from(rendered), on the string rendered last
ParseRendered ==
    /\ text # <<>>
    /\ back' = <<[raw |-> text[1].out, v |-> FromStr(text[1].out)]>>
    /\ UNCHANGED <<ctype, src, text, wire, p, psrc, q, cmp>>

Next ==
    \/ Default
    \/ FromStrCall
    \/ FromCandidateTypeCall
    \/ ToString
    \/ ParseRendered

Spec == Init /\ [][Next]_vars

\* serialize ctype
SerializeCall ==
    /\ wire' = <<[self |-> ctype, tag |-> Serialize(ctype)]>>
    /\ UNCHANGED <<ctype, src, text, back, p, psrc, q, cmp>>

\* deserialize a tag: a fresh one or the one serialized last; an error leaves
\* the caller without a new value
DeserializeCall ==
    \E tag \in Inputs \cup {wire[i].tag : i \in DOMAIN wire} :
        LET r == Deserialize(tag) IN
        /\ ctype' = IF r.ok THEN r.v ELSE ctype
        /\ src' = Call("deserialize", tag, NoKind, r.ok)
        /\ UNCHANGED <<text, back, wire, p, psrc, q, cmp>>

NextSerde ==
    \/ Default
    \/ FromCandidateTypeCall
    \/ ToString
    \/ SerializeCall
    \/ DeserializeCall

SpecSerde == Init /\ [][NextSerde]_vars

\* ICEParameters::default()
ParamsDefault ==
    /\ p' = ICEParametersDefault
    /\ psrc' = "default"
    /\ cmp' = <<>>
    /\ UNCHANGED <<ctype, src, text, back, wire, q>>

\* ICEParameters { username_fragment, password, ice_lite }
ParamsNew ==
    \E r \in ICEParameters :
        /\ p' = r
        /\ psrc' = "new"
        /\ cmp' = <<>>
        /\ UNCHANGED <<ctype, src, text, back, wire, q>>

\* q = p.clone()
ParamsClone ==
    /\ q' = p
    /\ cmp' = <<>>
    /\ UNCHANGED <<ctype, src, text, back, wire, p, psrc>>

\* lhs == rhs and rhs == lhs on the values held
ParamsEq ==
    \E lhs \in {p, q}, rhs \in {p, q} :
        /\ cmp' = <<[lhs |-> lhs, rhs |-> rhs,
                     eq |-> ICEParametersEq(lhs, rhs),
                     qe |-> ICEParametersEq(rhs, lhs)]>>
        /\ UNCHANGED <<ctype, src, text, back, wire, p, psrc, q>>

NextParams ==
    \/ Default
    \/ FromCandidateTypeCall
    \/ ParamsDefault
    \/ ParamsNew
    \/ ParamsClone
    \/ ParamsEq

SpecParams == Init /\ [][NextParams]_vars

(***************************************************************************)
(* Properties.                                                             *)
(***************************************************************************)
Rendered == text # <<>>

ParsedBack == text # <<>> /\ back # <<>> /\ back[1].raw = text[1].out

Serialized == wire # <<>>

Compared == cmp # <<>>

\* the strings of the tests, spelled out
HostLit == <<"h","o","s","t">>

SrflxLit == <<"s","r","f","l","x">>

PrflxLit == <<"p","r","f","l","x">>

RelayLit == <<"r","e","l","a","y">>

UnspecifiedLit == <<"U","n","s","p","e","c","i","f","i","e","d">>

\* C1: a value parsed from one of the four wire tokens renders as that token,
\* and the four tokens parse to Host, Srflx, Prflx and Relay respectively.
C1_TokenParseRender ==
    src.fn = "from_str" =>
        /\ (src.raw = HostLit => ctype = "Host")
        /\ (src.raw = SrflxLit => ctype = "Srflx")
        /\ (src.raw = PrflxLit => ctype = "Prflx")
        /\ (src.raw = RelayLit => ctype = "Relay")
        /\ (src.raw \in {HostLit, SrflxLit, PrflxLit, RelayLit}
              /\ Rendered /\ text[1].self = ctype
                => text[1].out = src.raw)

C1_Witness ==
    /\ src.fn = "from_str"
    /\ src.raw = SrflxLit
    /\ ctype = "Srflx"
    /\ Rendered
    /\ text[1].self = ctype
    /\ text[1].out = SrflxLit

\* C2: every input string that is not exactly one of the four wire tokens
\* parses to Unspecified.
C2_OtherStringsUnspecified ==
    (src.fn = "from_str" /\ src.raw \notin {HostLit, SrflxLit, PrflxLit, RelayLit})
        => ctype = "Unspecified"

C2_Witness ==
    /\ src.fn = "from_str"
    /\ src.raw = <<"P","R","F","L","X">>
    /\ ctype = "Unspecified"

\* C3 as stated: parsing what a variant renders to gives the variant back for
\* the four named variants, and does not for Unspecified.
C3_RoundTripFailsForUnspecified ==
    ParsedBack =>
        /\ (text[1].self \in NamedTypes => back[1].v = text[1].self)
        /\ (text[1].self = "Unspecified" => back[1].v # text[1].self)

\* C3 amended: parsing what a variant renders to gives the variant back for
\* all five variants; what Unspecified renders to is none of the four wire
\* tokens and is parsed by the fallback arm.
C3_RoundTripAllVariants ==
    ParsedBack =>
        /\ back[1].v = text[1].self
        /\ (text[1].self = "Unspecified"
              => back[1].raw \notin {HostLit, SrflxLit, PrflxLit, RelayLit})
        /\ (text[1].self \in NamedTypes
              => back[1].raw \in {HostLit, SrflxLit, PrflxLit, RelayLit})

C3_Witness ==
    /\ ParsedBack
    /\ text[1].self = "Unspecified"
    /\ back[1].v = "Unspecified"

\* C4: every variant renders to a non-empty string, and Unspecified renders to
\* the sentinel "Unspecified", which is none of the four wire tokens.
C4_RenderTotalSentinel ==
    Rendered =>
        /\ text[1].self \in ICECandidateType
        /\ Len(text[1].out) > 0
        /\ (text[1].self = "Unspecified"
              => /\ text[1].out = UnspecifiedLit
                 /\ text[1].out \notin {HostLit, SrflxLit, PrflxLit, RelayLit})

C4_Witness ==
    /\ Rendered
    /\ text[1].self = "Unspecified"
    /\ text[1].out = UnspecifiedLit

\* C5: the four known transport kinds convert to Host, Srflx, Prflx and Relay
\* respectively, and every other transport kind converts to Unspecified.
C5_TransportKinds ==
    src.fn = "from_candidate_type" =>
        /\ (src.kind.tag = "Host" <=> ctype = "Host")
        /\ (src.kind.tag = "ServerReflexive" <=> ctype = "Srflx")
        /\ (src.kind.tag = "PeerReflexive" <=> ctype = "Prflx")
        /\ (src.kind.tag = "Relay" <=> ctype = "Relay")
        /\ (src.kind.tag \notin KnownKinds <=> ctype = "Unspecified")

C5_Witness ==
    /\ src.fn = "from_candidate_type"
    /\ src.kind.tag = "Other"
    /\ ctype = "Unspecified"

\* C6: each of the three conversions returns a value of its result type for
\* every input: a parse or a transport conversion yields one of the five
\* variants, a rendering yields a string.
C6_ConversionsReturnValues ==
    /\ (src.fn \in {"from_str", "from_candidate_type"} => ctype \in ICECandidateType)
    /\ (back # <<>> => back[1].v \in ICECandidateType)
    /\ (Rendered => \A i \in 1..Len(text[1].out) : text[1].out[i] \in Chars)

C6_Witness ==
    /\ src.fn = "from_str"
    /\ src.raw = <<>>
    /\ ctype = "Unspecified"
    /\ Rendered
    /\ back # <<>>

\* C7: ICECandidateType::default() is Unspecified, and ICEParameters::default()
\* has an empty username fragment, an empty password and ice_lite false.
C7_Defaults ==
    /\ (src.fn = "default" => ctype = "Unspecified")
    /\ (psrc = "default" =>
          /\ p.username_fragment = <<>>
          /\ p.password = <<>>
          /\ p.ice_lite = FALSE)

C7_Witness ==
    /\ src.fn = "default"
    /\ ctype = "Unspecified"
    /\ psrc = "default"
    /\ p.ice_lite = FALSE
    /\ q.ice_lite = TRUE

\* C8: two ICEParameters compare equal exactly when their three fields are
\* pairwise equal; the comparison is reflexive and symmetric.
C8_ParamsEquality ==
    Compared =>
        /\ (cmp[1].eq <=> /\ cmp[1].lhs.username_fragment = cmp[1].rhs.username_fragment
                          /\ cmp[1].lhs.password = cmp[1].rhs.password
                          /\ cmp[1].lhs.ice_lite = cmp[1].rhs.ice_lite)
        /\ (cmp[1].lhs = cmp[1].rhs => cmp[1].eq)
        /\ cmp[1].eq = cmp[1].qe

C8_Witness ==
    /\ Compared
    /\ cmp[1].lhs.username_fragment = cmp[1].rhs.username_fragment
    /\ cmp[1].lhs.password = cmp[1].rhs.password
    /\ cmp[1].lhs.ice_lite # cmp[1].rhs.ice_lite
    /\ ~cmp[1].eq

\* C9 as stated: only the four wire tokens are ever written or accepted as a
\* serialized tag, so Unspecified has no serialized form.
C9_OnlyWireTokensSerialized ==
    /\ (Serialized => wire[1].tag \in {HostLit, SrflxLit, PrflxLit, RelayLit})
    /\ (src.fn = "deserialize" /\ src.ok
          => src.raw \in {HostLit, SrflxLit, PrflxLit, RelayLit})

\* C9 amended: a named variant is serialized as its wire token, which is its
\* display string; Unspecified is serialized under its identifier
\* "Unspecified"; a serialized tag deserializes to the variant it came from,
\* and a tag that is none of these five is rejected.
C9_SerdeTags ==
    /\ (Serialized /\ wire[1].self \in NamedTypes =>
          /\ wire[1].tag \in {HostLit, SrflxLit, PrflxLit, RelayLit}
          /\ (Rendered /\ text[1].self = wire[1].self => wire[1].tag = text[1].out))
    /\ (Serialized /\ wire[1].self = "Unspecified" => wire[1].tag = UnspecifiedLit)
    /\ (Serialized /\ src.fn = "deserialize" /\ src.raw = wire[1].tag
          => src.ok /\ ctype = wire[1].self)
    /\ (src.fn = "deserialize" =>
          (src.ok <=> src.raw \in {HostLit, SrflxLit, PrflxLit, RelayLit, UnspecifiedLit}))

C9_Witness ==
    /\ Serialized
    /\ wire[1].self = "Unspecified"
    /\ wire[1].tag = UnspecifiedLit
    /\ src.fn = "deserialize"
    /\ src.raw = wire[1].tag
    /\ src.ok
    /\ ctype = "Unspecified"

\* C10: rendering a parsed value and parsing the result gives the parsed value
\* again, for every input string; distinct variants render to distinct strings.
C10_ParseRenderParseStable ==
    /\ (src.fn = "from_str" /\ ParsedBack /\ text[1].self = ctype
          => back[1].v = ctype)
    /\ (Rendered =>
          /\ (text[1].out = HostLit <=> text[1].self = "Host")
          /\ (text[1].out = SrflxLit <=> text[1].self = "Srflx")
          /\ (text[1].out = PrflxLit <=> text[1].self = "Prflx")
          /\ (text[1].out = RelayLit <=> text[1].self = "Relay")
          /\ (text[1].out = UnspecifiedLit <=> text[1].self = "Unspecified"))

C10_Witness ==
    /\ src.fn = "from_str"
    /\ src.raw = <<" ">> \o HostLit
    /\ ctype = "Unspecified"
    /\ ParsedBack
    /\ text[1].self = ctype
    /\ back[1].v = ctype

====
